---- MODULE Spec2Model ----
(***************************************************************************)
(* Model of the Mandelbrot back end: the escape-time engine                *)
(* (src/src/mandelbrot.py), its per-point reference (src/main.py) and the  *)
(* HDF5 tile cache (src/src/h5_cache.py).                                  *)
(*                                                                         *)
(* Numbers.  Axis coordinates and plane limits are exact rationals         *)
(* <<num, den>> (den > 0, lowest terms): np.linspace and the window        *)
(* arithmetic are modelled without float rounding.  The orbit z <- z^2 + c *)
(* is computed in fixed point with Scale units per 1.0 and one rounding    *)
(* (floor) per product, as a float orbit rounds each product; exact orbits *)
(* have denominators that square at every step.                            *)
(***************************************************************************)
EXTENDS Integers, Sequences, FiniteSets, TLC

\* ------------------------------------------------------------------ bounds
Scale == 16
MaxIter == 4
MaxLimit == 2
MaxLineLen == 3

\* ------------------------------------------------------------- arithmetic
Abs(n) == IF n < 0 THEN -n ELSE n

RECURSIVE Gcd(_, _)
Gcd(a, b) == IF b = 0 THEN a ELSE Gcd(b, a % b)

\* a rational in lowest terms with a positive denominator
Rat(n, d) ==
    LET s == IF d < 0 THEN -1 ELSE 1
        g == Gcd(Abs(n), Abs(d))
    IN  <<(s * n) \div g, (s * d) \div g>>

RInt(n) == <<n, 1>>
RAdd(p, q) == Rat(p[1] * q[2] + q[1] * p[2], p[2] * q[2])
RSub(p, q) == Rat(p[1] * q[2] - q[1] * p[2], p[2] * q[2])
RMul(p, q) == Rat(p[1] * q[1], p[2] * q[2])
RDiv(p, q) == Rat(p[1] * q[2], p[2] * q[1])
RLt(p, q) == p[1] * q[2] < q[1] * p[2]
RLe(p, q) == p[1] * q[2] <= q[1] * p[2]

\* a float coordinate as the engine's fixed-point number
ToFixed(r) == (r[1] * Scale) \div r[2]

\* np.linspace(start, stop, num): num evenly spaced samples, both ends included
LinSpace(start, stop, num) ==
    [i \in 1..num |->
        IF num = 1 THEN start
        ELSE IF i = num THEN stop
        ELSE RAdd(start, RMul(RInt(i - 1), RDiv(RSub(stop, start), RInt(num - 1))))]

\* ------------------------------------------------------------------ state
VARIABLES
    \* Mandelbrot.main_loop: arguments, locals and position
    x_line, y_line, max_iter, iteration_limit,
    z_grid, mask_grid, count_grid, loop_i, loop_pc,
    \* the HDF5 file of H5Cache and the fields of the H5Cache object
    store, depth, level_granularity, base_name,
    \* create_initial_cache: argument, locals and position
    starting_linespace, current_level, pending, build_pc,
    \* the exception the last call on the cache raised ("none" if it returned)
    raised,
    \* what the last read_cache call of a client gave
    read_result,
    \* the number of calls made on the cache
    calls,
    \* concurrent create_cache calls: position, argument, next dataset
    gen_pc, gen_data, gen_step,
    \* a concurrent read_cache call: position, argument, next dataset, the
    \* datasets read so far
    rd_pc, rd_level, rd_step, rd_got,
    \* Mandelbrot.xlim_ylim_rescale: argument, result and position
    mdl_data, plane_limits, rescale_pc,
    \* mandel_data_from_request / mandel_data_from_lines (argument mdl_data):
    \* position, the exception raised ("none" if it returned), the MandelData
    \* returned
    req_pc, req_raised, req_data,
    \* what astype(int) makes of a nan or inf on the machine the program runs on
    nan_as_int

loopVars == <<x_line, y_line, max_iter, iteration_limit,
              z_grid, mask_grid, count_grid, loop_i, loop_pc>>
cacheVars == <<store, depth, level_granularity, base_name,
               starting_linespace, current_level, pending, build_pc,
               raised, read_result, calls>>

concVars == <<gen_pc, gen_data, gen_step, rd_pc, rd_level, rd_step, rd_got>>

rescaleVars == <<mdl_data, plane_limits, rescale_pc,
                 req_pc, req_raised, req_data, nan_as_int>>

vars == <<loopVars, cacheVars, concVars, rescaleVars>>

\* ----------------------------------------------------------- escape time
\* z**2 + c on complex numbers <<re, im>> (main.py z(), np.power(z, 2) + c)
ZStep(zn, c) ==
    <<(zn[1] * zn[1] - zn[2] * zn[2]) \div Scale + c[1],
      (2 * zn[1] * zn[2]) \div Scale + c[2]>>

\* abs(z) <= limit, limit an integer of the schema
AbsLe(zn, limit) ==
    /\ limit >= 0
    /\ zn[1] * zn[1] + zn[2] * zn[2] <= (limit * Scale) * (limit * Scale)

\* the per-point reference: the index of the first iteration after which
\* abs(zn) > limit, or max_iterations
RECURSIVE CheckFrom(_, _, _, _, _)
CheckFrom(zn, c, i, max_iterations, limit) ==
    IF i >= max_iterations THEN max_iterations
    ELSE LET nxt == ZStep(zn, c)
         IN  IF ~AbsLe(nxt, limit) THEN i
             ELSE CheckFrom(nxt, c, i + 1, max_iterations, limit)

complex_num_check(c, max_iterations, limit) ==
    CheckFrom(<<0, 0>>, c, 0, max_iterations, limit)

\* the points of a grid: row = index into y_line, column = index into x_line
GridPoints(xl, yl) == (1..Len(yl)) \X (1..Len(xl))

\* complex_grid of main_loop: real part from x_line, imaginary from y_line
ComplexGrid(xl, yl) ==
    [p \in GridPoints(xl, yl) |-> <<ToFixed(xl[p[2]]), ToFixed(yl[p[1]])>>]

\* a loop body that counts before it clears the mask
PointBody_CountsBeforeMask(s, c, limit) ==
    LET z2 == IF s.mask THEN ZStep(s.z, c) ELSE s.z
        m2 == s.mask /\ AbsLe(z2, limit)
    IN  [z |-> z2, mask |-> m2, count |-> s.count + (IF s.mask THEN 1 ELSE 0)]

\* The body of the for loop of main_loop at one point of the grid, whose
\* state is s = [z, mask, count]: z is updated where the mask is set, the
\* mask is cleared where abs(z) > iteration_limit, count += mask.
PointBody(s, c, limit) ==
    LET z2 == IF s.mask THEN ZStep(s.z, c) ELSE s.z
        m2 == s.mask /\ AbsLe(z2, limit)
    IN  [z |-> z2, mask |-> m2, count |-> s.count + (IF m2 THEN 1 ELSE 0)]

\* np.zeros_like / np.ones_like: z = 0, mask set, count = 0
PointStart == [z |-> <<0, 0>>, mask |-> TRUE, count |-> 0]

\* one pass of the body of the for loop over the whole grid
LoopBody(g, cg, limit) == [p \in DOMAIN cg |-> PointBody(g[p], cg[p], limit)]

LoopStart(cg) == [p \in DOMAIN cg |-> PointStart]

\* n passes of the loop at one point (the points do not interact): n \div 2
\* passes, then the others; a pass changes nothing at a point whose mask is
\* cleared
RECURSIVE PointRun(_, _, _, _)
PointRun(s, c, n, limit) ==
    IF n <= 0 THEN s
    ELSE IF n = 1 THEN PointBody(s, c, limit)
    ELSE LET half == PointRun(s, c, n \div 2, limit)
         IN  IF half.mask THEN PointRun(half, c, n - (n \div 2), limit) ELSE half

\* main_loop as a function: the count grid it returns
main_loop(xl, yl, maxIter, limit) ==
    LET cg == ComplexGrid(xl, yl)
    IN  [p \in DOMAIN cg |-> PointRun(PointStart, cg[p], maxIter, limit).count]

\* ------------------------------------------------------ program constants
\* schema defaults of MandelLineSpaceSchema
DefaultMaxIter == 255
DefaultIterationLimit == 2
\* color_max of colorize
ColorMax == 255
\* the number of values of np.uint8
Uint8Range == 256

\* --------------------------------------------------------------- colorize
\* int((cos(count) + 1) / 2 * 255) and int((sin(count) + 1) / 2 * 255) for
\* count = 0..300, entry count + 1
GreenTable ==
    <<255, 196, 74, 1, 44, 163, 249, 223, 108, 11, 20, 128, 235, 243, 144, 30, 5, 92, 211, 253,
      179, 57, 0, 59, 181, 253, 209, 90, 4, 32, 147, 244, 233, 125, 19, 12, 111, 225, 249, 161,
      42, 1, 76, 198, 254, 194, 72, 0, 45, 165, 250, 222, 106, 10, 21, 130, 236, 242, 142, 29,
      6, 94, 213, 253, 177, 55, 0, 61, 183, 254, 208, 88, 4, 33, 149, 245, 232, 123, 18, 13,
      113, 226, 248, 159, 40, 1, 78, 200, 254, 192, 70, 0, 47, 167, 251, 220, 104, 9, 23, 132,
      237, 241, 140, 27, 6, 96, 215, 252, 175, 53, 0, 63, 185, 254, 206, 85, 3, 35, 151, 245,
      231, 121, 16, 14, 115, 227, 247, 157, 39, 2, 80, 201, 254, 190, 68, 0, 49, 170, 251, 219,
      102, 8, 24, 134, 238, 240, 138, 26, 7, 98, 216, 252, 173, 52, 0, 65, 187, 254, 204, 83,
      3, 36, 153, 246, 229, 119, 15, 15, 117, 229, 247, 154, 37, 2, 82, 203, 254, 188, 66, 0,
      51, 172, 252, 217, 100, 7, 25, 137, 239, 239, 135, 25, 8, 101, 218, 251, 171, 50, 0, 67,
      189, 254, 202, 81, 2, 38, 156, 247, 228, 116, 14, 16, 120, 230, 246, 152, 35, 3, 84, 205,
      254, 186, 64, 0, 53, 174, 252, 215, 97, 7, 27, 139, 240, 238, 133, 23, 9, 103, 219, 251,
      169, 48, 0, 69, 191, 254, 201, 79, 2, 39, 158, 248, 227, 114, 13, 17, 122, 231, 245, 150,
      34, 3, 87, 207, 254, 184, 62, 0, 54, 176, 253, 214, 95, 6, 28, 141, 241, 236, 131, 22,
      9, 105, 221, 250, 166, 46, 0, 71, 193, 254, 199, 77, 1, 41, 160, 248, 225, 112, 12, 18,
      124>>

BlueTable ==
    <<127, 234, 243, 145, 31, 5, 91, 211, 253, 180, 58, 0, 59, 181, 253, 210, 90, 4, 31, 146,
      243, 234, 126, 19, 12, 110, 224, 249, 162, 42, 1, 75, 197, 254, 194, 72, 1, 45, 165, 250,
      222, 107, 10, 21, 129, 235, 242, 143, 29, 5, 94, 212, 253, 177, 56, 0, 61, 183, 254, 208,
      88, 4, 33, 148, 244, 232, 124, 18, 13, 112, 226, 248, 159, 41, 1, 78, 199, 254, 193, 70,
      0, 47, 167, 250, 220, 105, 9, 22, 132, 237, 241, 141, 28, 6, 96, 214, 252, 175, 54, 0,
      62, 185, 254, 206, 86, 3, 34, 151, 245, 231, 121, 17, 14, 115, 227, 248, 157, 39, 2, 80,
      201, 254, 191, 68, 0, 48, 169, 251, 219, 102, 8, 24, 134, 238, 240, 138, 26, 7, 98, 216,
      252, 173, 52, 0, 64, 187, 254, 205, 84, 3, 36, 153, 246, 230, 119, 16, 15, 117, 228, 247,
      155, 37, 2, 82, 203, 254, 189, 66, 0, 50, 171, 252, 217, 100, 8, 25, 136, 239, 239, 136,
      25, 8, 100, 217, 252, 171, 50, 0, 66, 189, 254, 203, 82, 2, 37, 155, 247, 228, 117, 15,
      16, 119, 230, 246, 153, 36, 3, 84, 205, 254, 187, 64, 0, 52, 173, 252, 216, 98, 7, 26,
      138, 240, 238, 134, 24, 8, 102, 219, 251, 169, 48, 0, 68, 191, 254, 201, 80, 2, 39, 157,
      248, 227, 115, 14, 17, 121, 231, 245, 151, 34, 3, 86, 206, 254, 185, 62, 0, 54, 175, 252,
      214, 96, 6, 28, 141, 241, 237, 132, 22, 9, 105, 220, 250, 167, 47, 0, 70, 193, 254, 199,
      78, 1, 41, 159, 248, 226, 112, 13, 18, 124, 232, 244, 148, 33, 4, 88, 208, 254, 183, 60,
      0>>

MaxTableCount == Len(GreenTable) - 1

\* count_grid / max_iter_grid * color_max, truncated by astype(int)
RedOf(count, maxIter) == (count * ColorMax) \div maxIter
GreenOf(count) == GreenTable[count + 1]
BlueOf(count) == BlueTable[count + 1]

\* a grid with every column repeated pixel_pp times (np.repeat(.., axis=1))
RepeatCols(grid, rows, cols, pixel_pp) ==
    [p \in (1..rows) \X (1..(cols * pixel_pp)) |->
        grid[<<p[1], ((p[2] - 1) \div pixel_pp) + 1>>]]

\* colorize(count_grid, max_iter, pixel_pp, is_canvas=False): the three
\* channel grids; rows and cols are the shape of count_grid
colorize(counts, rows, cols, maxIter, pixel_pp) ==
    [red |-> RepeatCols([p \in DOMAIN counts |-> RedOf(counts[p], maxIter)],
                        rows, cols, pixel_pp),
     green |-> RepeatCols([p \in DOMAIN counts |-> GreenOf(counts[p])],
                          rows, cols, pixel_pp),
     blue |-> RepeatCols([p \in DOMAIN counts |-> BlueOf(counts[p])],
                         rows, cols, pixel_pp)]

\* color_data=None, as main_loop leaves it
NoColor == [none |-> TRUE]
HasColor(data) == "red" \in DOMAIN data.color_data

\* MandelData.level defaults to 'na'
DefaultLevel == <<"n", "a">>

\* MandelLineSpaceSchema(x_line, y_line) with the schema defaults
LineSpaceSchema(xl, yl) ==
    [x_line |-> xl, y_line |-> yl,
     max_iter |-> DefaultMaxIter, iteration_limit |-> DefaultIterationLimit]

\* Mandelbrot.mandel_data_from_lines
mandel_data_from_lines(ls) ==
    LET counts == main_loop(ls.x_line, ls.y_line, ls.max_iter, ls.iteration_limit)
    IN  [count_grid |-> counts,
         x_line |-> ls.x_line,
         y_line |-> ls.y_line,
         color_data |-> colorize(counts, Len(ls.y_line), Len(ls.x_line), ls.max_iter, 1),
         level |-> DefaultLevel]

\* ------------------------------------------------------------ tile keys
DigitChar == <<"0", "1", "2", "3", "4", "5", "6", "7", "8", "9">>

\* the code point of a character of a key
Ord(ch) ==
    CASE ch = "a" -> 97
      [] ch = "n" -> 110
      [] OTHER -> 47 + (CHOOSE i \in 1..10 : DigitChar[i] = ch)

\* str(n) for n >= 0
RECURSIVE Str(_)
Str(n) == IF n < 10 THEN <<DigitChar[n + 1]>>
          ELSE Str(n \div 10) \o <<DigitChar[(n % 10) + 1]>>

\* width * str(0)
Zeros(width) == [i \in 1..width |-> "0"]

\* no padding
ZFill_NoPadding(s, width) == s

\* s.zfill(width)
ZFill(s, width) == IF Len(s) >= width THEN s ELSE Zeros(width - Len(s)) \o s

\* len(str(level_granularity**2 - 1)) * str(0)
BaseName(granularity) == Zeros(Len(Str(granularity * granularity - 1)))

\* string order
RECURSIVE StrLess(_, _)
StrLess(a, b) ==
    IF a = <<>> THEN b # <<>>
    ELSE IF b = <<>> THEN FALSE
    ELSE IF Head(a) = Head(b) THEN StrLess(Tail(a), Tail(b))
    ELSE Ord(Head(a)) < Ord(Head(b))

\* list(f.keys()): the names of the groups of the file, in name order
RECURSIVE KeyList(_)
KeyList(keys) ==
    IF keys = {} THEN <<>>
    ELSE LET first == CHOOSE k \in keys : \A o \in keys \ {k} : StrLess(k, o)
         IN  <<first>> \o KeyList(keys \ {first})

\* ------------------------------------------------------------ the store
\* The HDF5 file is a function from group names to groups; a group is a
\* function from the names of its datasets to their contents.
DatasetNames == <<"count_grid", "x_line", "y_line", "red", "green", "blue">>
DatasetSet == {DatasetNames[i] : i \in 1..Len(DatasetNames)}

EmptyStore == <<>>
EmptyGroup == <<>>

Complete(group) == DOMAIN group = DatasetSet

\* a conversion that clips at 255 instead of wrapping
AsUint8_Clipping(counts) ==
    [p \in DOMAIN counts |-> IF counts[p] > Uint8Range - 1 THEN Uint8Range - 1 ELSE counts[p]]

\* count_grid.astype(np.uint8)
AsUint8(counts) == [p \in DOMAIN counts |-> counts[p] % Uint8Range]

\* the data= argument of the i-th create_dataset of create_cache
DatasetValue(data, name) ==
    CASE name = "count_grid" -> AsUint8(data.count_grid)
      [] name = "x_line" -> data.x_line
      [] name = "y_line" -> data.y_line
      [] OTHER -> data.color_data[name]

\* evaluating that argument raises TypeError when color_data is None
ValueRaises(data, name) == name \in {"red", "green", "blue"} /\ ~HasColor(data)

\* a create_group that takes an existing name (require_group)
CreateGroupRaises_Never(st, level) == FALSE

\* f.create_group(name): ValueError when the name exists
CreateGroupRaises(st, level) == level \in DOMAIN st

CreateGroup(st, level) == (level :> EmptyGroup) @@ st

\* level_group.create_dataset(name, data=value)
CreateDataset(st, level, name, value) ==
    [st EXCEPT ![level] = (name :> value) @@ @]

\* the create_dataset calls of create_cache from the i-th on
RECURSIVE WriteDatasets(_, _, _)
WriteDatasets(st, data, i) ==
    IF i > Len(DatasetNames) THEN [store |-> st, raised |-> "none"]
    ELSE IF ValueRaises(data, DatasetNames[i]) THEN [store |-> st, raised |-> "TypeError"]
    ELSE WriteDatasets(
            CreateDataset(st, data.level, DatasetNames[i],
                          DatasetValue(data, DatasetNames[i])),
            data, i + 1)

\* H5Cache.create_cache: the file it leaves and the exception it raises
create_cache(st, data) ==
    IF CreateGroupRaises(st, data.level)
    THEN [store |-> st, raised |-> "ValueError"]
    ELSE WriteDatasets(CreateGroup(st, data.level), data, 1)

\* H5Cache.read_cache: the exception it raises and the MandelData it returns
\* (returned is empty when it raises)
read_cache(st, level) ==
    IF level \notin DOMAIN st
    THEN [level |-> level, raised |-> "KeyError", returned |-> <<>>]
    ELSE IF \E i \in 1..Len(DatasetNames) : DatasetNames[i] \notin DOMAIN st[level]
    THEN [level |-> level, raised |-> "KeyError", returned |-> <<>>]
    ELSE [level |-> level, raised |-> "none",
          returned |-> <<[count_grid |-> st[level]["count_grid"],
                          x_line |-> st[level]["x_line"],
                          y_line |-> st[level]["y_line"],
                          color_data |-> [red |-> st[level]["red"],
                                          green |-> st[level]["green"],
                                          blue |-> st[level]["blue"]],
                          level |-> level]>>]

\* H5Cache.get_keys_at_level
get_keys_at_level(st, level_depth) ==
    SelectSeq(KeyList(DOMAIN st), LAMBDA key : Len(key) = Len(level_depth))

\* -------------------------------------------------- generate_next_level
\* arr[::-1]
Reverse(arr) == [i \in 1..Len(arr) |-> arr[Len(arr) + 1 - i]]

\* a split whose parts overlap by one entry
ArraySplit_Overlapping(arr, sections, j) ==
    LET q == Len(arr) \div sections
        start == (j - 1) * (q - 1)
    IN  [i \in 1..q |-> arr[start + i]]

\* np.array_split(arr, sections)[j] for j = 1..sections: the first
\* len % sections parts have len // sections + 1 entries, the others
\* len // sections
ArraySplit(arr, sections, j) ==
    LET q == Len(arr) \div sections
        r == Len(arr) % sections
        size == IF j <= r THEN q + 1 ELSE q
        start == (j - 1) * q + (IF j - 1 < r THEN j - 1 ELSE r)
    IN  [i \in 1..size |-> arr[start + i]]

\* next_x_line and next_y_line of generate_next_level
NextXLine(parent, granularity) ==
    LinSpace(parent.x_line[1], parent.x_line[Len(parent.x_line)],
             Len(parent.x_line) * granularity)
NextYLine(parent, granularity) ==
    LinSpace(parent.y_line[Len(parent.y_line)], parent.y_line[1],
             Len(parent.y_line) * granularity)

\* formated_name of box_item
FormatedName(box_item, base) == ZFill(Str(box_item), Len(base))

\* a child computed with the max_iter and iteration_limit of the starting
\* linespace of the build
ChildData_InheritsRoot(parent, granularity, base, box_item) ==
    LET x_item == ArraySplit(NextXLine(parent, granularity), granularity,
                             (box_item % granularity) + 1)
        y_item == ArraySplit(NextYLine(parent, granularity), granularity,
                             (box_item \div granularity) + 1)
        mdl == mandel_data_from_lines(
                   [x_line |-> x_item, y_line |-> Reverse(y_item),
                    max_iter |-> starting_linespace.max_iter,
                    iteration_limit |-> starting_linespace.iteration_limit])
    IN  [mdl EXCEPT !.level = parent.level \o FormatedName(box_item, base)]

\* the MandelData of the child box_item (row box_item // granularity of
\* iter_box, column box_item % granularity) as handed to create_cache
ChildData(parent, granularity, base, box_item) ==
    LET x_item == ArraySplit(NextXLine(parent, granularity), granularity,
                             (box_item % granularity) + 1)
        y_item == ArraySplit(NextYLine(parent, granularity), granularity,
                             (box_item \div granularity) + 1)
        mdl == mandel_data_from_lines(LineSpaceSchema(x_item, Reverse(y_item)))
    IN  [mdl EXCEPT !.level = parent.level \o FormatedName(box_item, base)]

\* the two nested loops of generate_next_level from child box_item on; an
\* exception of create_cache ends them
RECURSIVE GenerateFrom(_, _, _, _, _)
GenerateFrom(st, parent, granularity, base, box_item) ==
    IF box_item >= granularity * granularity THEN [store |-> st, raised |-> "none"]
    ELSE LET res == create_cache(st, ChildData(parent, granularity, base, box_item))
         IN  IF res.raised # "none" THEN res
             ELSE GenerateFrom(res.store, parent, granularity, base, box_item + 1)

\* H5Cache.generate_next_level
generate_next_level(st, parent, granularity, base) ==
    GenerateFrom(st, parent, granularity, base, 0)

\* --------------------------------------------------- main_loop, stepwise
SampleLines ==
    {LinSpace(RInt(a), RInt(b), n) : a \in {-2, -1, 0}, b \in {0, 1, 2}, n \in 1..MaxLineLen}
SampleRows ==
    {LinSpace(RInt(a), RInt(b), n) : a \in {-1, 0}, b \in {1, 2}, n \in 1..MaxLineLen}
Limits == -1..MaxLimit

\* no read_cache call has been made
NoRead == [level |-> <<>>, raised |-> "none", returned |-> <<>>]
NoLineSpace == [x_line |-> <<>>, y_line |-> <<>>, max_iter |-> 0, iteration_limit |-> 0]

\* H5Cache.__init__ on a new data folder: an empty file, the default fields
CacheInit ==
    /\ store = EmptyStore
    /\ depth = 0
    /\ level_granularity = 2
    /\ base_name = <<"0">>
    /\ starting_linespace = NoLineSpace
    /\ current_level = <<>>
    /\ pending = <<>>
    /\ build_pc = "idle"
    /\ raised = "none"
    /\ read_result = NoRead
    /\ calls = 0

\* no main_loop call is in progress
LoopIdle ==
    /\ x_line = <<>>
    /\ y_line = <<>>
    /\ max_iter = 0
    /\ iteration_limit = 0
    /\ z_grid = <<>>
    /\ mask_grid = <<>>
    /\ count_grid = <<>>
    /\ loop_i = 0
    /\ loop_pc = "idle"

\* the processes that call create_cache concurrently
Generators == {"g1", "g2"}

\* no concurrent call is in progress
ConcIdle ==
    /\ gen_pc = [w \in Generators |-> "idle"]
    /\ gen_data = [w \in Generators |-> <<>>]
    /\ gen_step = [w \in Generators |-> 0]
    /\ rd_pc = "idle"
    /\ rd_level = <<>>
    /\ rd_step = 0
    /\ rd_got = <<>>

\* no mandel_data_from_request / mandel_data_from_lines call is in progress
RequestIdle ==
    /\ req_pc = "idle"
    /\ req_raised = "none"
    /\ req_data = <<>>
    /\ nan_as_int = 0

\* no xlim_ylim_rescale call is in progress
RescaleIdle ==
    /\ mdl_data = <<>>
    /\ plane_limits = <<>>
    /\ rescale_pc = "idle"
    /\ RequestIdle

InitLoop ==
    /\ CacheInit
    /\ ConcIdle
    /\ RescaleIdle
    /\ x_line \in SampleLines
    /\ y_line \in SampleRows
    /\ max_iter \in 0..MaxIter
    /\ iteration_limit \in Limits
    /\ z_grid = [p \in GridPoints(x_line, y_line) |-> PointStart.z]
    /\ mask_grid = [p \in GridPoints(x_line, y_line) |-> PointStart.mask]
    /\ count_grid = [p \in GridPoints(x_line, y_line) |-> PointStart.count]
    /\ loop_i = 0
    /\ loop_pc = "loop"

\* one iteration of `for _ in range(max_iter)`
MainLoopIterate ==
    /\ loop_pc = "loop"
    /\ loop_i < max_iter
    /\ LET cg == ComplexGrid(x_line, y_line)
           g == LoopBody([p \in DOMAIN cg |->
                            [z |-> z_grid[p], mask |-> mask_grid[p], count |-> count_grid[p]]],
                         cg, iteration_limit)
       IN  /\ z_grid' = [p \in DOMAIN cg |-> g[p].z]
           /\ mask_grid' = [p \in DOMAIN cg |-> g[p].mask]
           /\ count_grid' = [p \in DOMAIN cg |-> g[p].count]
    /\ loop_i' = loop_i + 1
    /\ UNCHANGED <<x_line, y_line, max_iter, iteration_limit, loop_pc>>
    /\ UNCHANGED <<cacheVars, concVars, rescaleVars>>

\* the range is exhausted: main_loop returns its MandelData
MainLoopReturn ==
    /\ loop_pc = "loop"
    /\ loop_i >= max_iter
    /\ loop_pc' = "done"
    /\ UNCHANGED <<x_line, y_line, max_iter, iteration_limit,
                   z_grid, mask_grid, count_grid, loop_i>>
    /\ UNCHANGED <<cacheVars, concVars, rescaleVars>>

NextLoop == MainLoopIterate \/ MainLoopReturn

SpecLoop == InitLoop /\ [][NextLoop]_vars

\* C1: when main_loop returns, every point of the grid holds the count the
\* per-point reference complex_num_check gives it: the zero-indexed iteration
\* at which |z| first exceeds the escape radius, or max_iter if it never does.
C1_CountMatchesReference ==
    loop_pc = "done" =>
        \A p \in GridPoints(x_line, y_line) :
            count_grid[p] =
                complex_num_check(ComplexGrid(x_line, y_line)[p], max_iter, iteration_limit)

\* main_loop has returned a grid with a point that never left the radius, a
\* point that left it at the first iteration and a point that left it later
C1_Witness ==
    /\ loop_pc = "done"
    /\ max_iter >= 3
    /\ \E p \in GridPoints(x_line, y_line) : count_grid[p] = max_iter
    /\ \E p \in GridPoints(x_line, y_line) : count_grid[p] = 0
    /\ \E p \in GridPoints(x_line, y_line) : count_grid[p] > 0 /\ count_grid[p] < max_iter

\* ------------------------------------------------- create_initial_cache
MaxDepth == 2
MaxGranularity == 4
\* the builds explored are those whose deepest level has at most MaxTiles tiles
MaxTiles == 16

RECURSIVE Pow(_, _)
Pow(b, e) == IF e <= 0 THEN 1 ELSE b * Pow(b, e - 1)

BuildArgs ==
    {a \in (0..MaxDepth) \X (1..MaxGranularity) : Pow(a[2], 2 * a[1]) <= MaxTiles}

\* the starting linespaces: evenly and unevenly spaced lines, iteration
\* counts on both sides of the range of np.uint8
RootXLines ==
    {LinSpace(RInt(-2), RInt(1), 2), <<RInt(-1), RInt(0), Rat(1, 2)>>}
RootYLines == {LinSpace(RInt(-1), RInt(1), 2), <<RInt(0)>>}
RootMaxIters == {3, 255, 256}
RootSpaces ==
    {[x_line |-> xl, y_line |-> yl, max_iter |-> mi, iteration_limit |-> il] :
        xl \in RootXLines, yl \in RootYLines, mi \in RootMaxIters, il \in 1..MaxLimit}

\* create_initial_cache up to its while loop: the fields, the root tile
CreateInitialCache(ls, d, granularity) ==
    LET base == BaseName(granularity)
        root_mdl_data == [mandel_data_from_lines(ls) EXCEPT !.level = base]
        res == create_cache(store, root_mdl_data)
    IN  /\ depth' = d
        /\ level_granularity' = granularity
        /\ base_name' = base
        /\ starting_linespace' = ls
        /\ store' = res.store
        /\ raised' = res.raised
        /\ pending' = <<>>
        /\ calls' = calls + 1
        /\ IF res.raised = "none"
           THEN current_level' = base /\ build_pc' = "while"
           ELSE current_level' = current_level /\ build_pc' = "raised"
        /\ UNCHANGED <<read_result, loopVars, concVars, rescaleVars>>

\* a while loop that stops one level early: `<` for `<=`
WhileTest_StopsEarly ==
    /\ build_pc = "while"
    /\ IF Len(current_level) < Len(base_name) * depth
       THEN pending' = get_keys_at_level(store, current_level) /\ build_pc' = "for"
       ELSE pending' = pending /\ build_pc' = "done"
    /\ UNCHANGED <<store, depth, level_granularity, base_name, starting_linespace,
                   current_level, raised, read_result, calls, loopVars, concVars, rescaleVars>>

\* the test of `while len(current_level) <= len(max_level)` and, when it
\* holds, the call of get_keys_at_level that the for loop runs over
WhileTest ==
    /\ build_pc = "while"
    /\ IF Len(current_level) <= Len(base_name) * depth
       THEN pending' = get_keys_at_level(store, current_level) /\ build_pc' = "for"
       ELSE pending' = pending /\ build_pc' = "done"
    /\ UNCHANGED <<store, depth, level_granularity, base_name, starting_linespace,
                   current_level, raised, read_result, calls, loopVars, concVars, rescaleVars>>

\* the body of the for loop for one key: read the parent, generate its
\* children; the file it leaves and the exception that ends it
expand_parent(st, key, granularity, base) ==
    LET rd == read_cache(st, key)
    IN  IF rd.raised # "none"
        THEN [store |-> st, raised |-> rd.raised]
        ELSE generate_next_level(st, rd.returned[1], granularity, base)

\* one pass of the for loop
ForParent ==
    /\ build_pc = "for"
    /\ pending # <<>>
    /\ store' = expand_parent(store, Head(pending), level_granularity, base_name).store
    /\ raised' = expand_parent(store, Head(pending), level_granularity, base_name).raised
    /\ pending' = Tail(pending)
    /\ build_pc' = IF raised' = "none" THEN "for" ELSE "raised"
    /\ UNCHANGED <<depth, level_granularity, base_name, starting_linespace,
                   current_level, read_result, calls, loopVars, concVars, rescaleVars>>

\* the for loop is over: current_level += self.base_name
ForEnd ==
    /\ build_pc = "for"
    /\ pending = <<>>
    /\ current_level' = current_level \o base_name
    /\ build_pc' = "while"
    /\ UNCHANGED <<store, depth, level_granularity, base_name, starting_linespace,
                   pending, raised, read_result, calls, loopVars, concVars, rescaleVars>>

\* a key no tile of the explored builds has
AbsentKey == <<"9">>

\* a client calls read_cache
ReadCache(level) ==
    /\ read_result' = read_cache(store, level)
    /\ raised' = read_cache(store, level).raised
    /\ UNCHANGED <<store, depth, level_granularity, base_name, starting_linespace,
                   current_level, pending, build_pc, loopVars, concVars, rescaleVars>>

\* one create_initial_cache on the new file, and the reads of clients
Init == CacheInit /\ LoopIdle /\ ConcIdle /\ RescaleIdle

StartBuild ==
    /\ build_pc = "idle"
    /\ \E ls \in RootSpaces, a \in BuildArgs : CreateInitialCache(ls, a[1], a[2])

\* between calls of create_initial_cache a client reads a tile
ClientRead ==
    /\ build_pc \in {"done", "raised"}
    /\ \E level \in DOMAIN store \cup {AbsentKey} : ReadCache(level)
    /\ UNCHANGED calls

Next == StartBuild \/ WhileTest \/ ForParent \/ ForEnd \/ ClientRead

Spec == Init /\ [][Next]_vars

\* --------------------------------------------------------------- claims
\* the concatenation of a sequence of sequences
RECURSIVE Flatten(_)
Flatten(seqs) == IF seqs = <<>> THEN <<>> ELSE Head(seqs) \o Flatten(Tail(seqs))

\* the width of a digit-group for the fanout of the build
GroupWidth == Len(Str(level_granularity * level_granularity - 1))

ChildKey(parent_key, box_item) == parent_key \o ZFill(Str(box_item), GroupWidth)
ChildKeys(parent_key) ==
    {ChildKey(parent_key, i) : i \in 0..(level_granularity * level_granularity - 1)}

Persisted(key) == key \in DOMAIN store /\ Complete(store[key])

\* a persisted tile whose children are all persisted
Expanded(key) == Persisted(key) /\ \A c \in ChildKeys(key) : Persisted(c)

\* the x_line of the children of row r and the y_line of the children of
\* column c (both counted from 0), concatenated in child-index order
RowXLines(key, r) ==
    Flatten([j \in 1..level_granularity |->
        store[ChildKey(key, r * level_granularity + (j - 1))]["x_line"]])
ColYLines(key, c) ==
    Flatten([i \in 1..level_granularity |->
        store[ChildKey(key, (i - 1) * level_granularity + c)]["y_line"]])
ColYLinesReversed(key, c) ==
    Flatten([i \in 1..level_granularity |->
        Reverse(store[ChildKey(key, (i - 1) * level_granularity + c)]["y_line"])])

Axis(key, name) == store[key][name]

\* C2 as stated: the children's x_line of every row and the children's
\* y_line of every column, concatenated in child-index order, are the
\* parent's x_line and y_line.
C2_ChildrenConcatIsParentAxis ==
    \A key \in DOMAIN store :
        Expanded(key) =>
            \A n \in 0..(level_granularity - 1) :
                /\ RowXLines(key, n) = Axis(key, "x_line")
                /\ ColYLines(key, n) = Axis(key, "y_line")

\* C2 amended: the children's x_line of every row, concatenated in
\* child-index order, are the f * len evenly spaced samples from the parent's
\* first x to its last; the children's y_line of every column, each reversed,
\* concatenated in child-index order, are the f * len evenly spaced samples
\* from the parent's last y to its first; every child has as many samples on
\* each axis as its parent.
C2_ChildrenConcatIsRefinedAxis ==
    \A key \in DOMAIN store :
        Expanded(key) =>
            LET px == Axis(key, "x_line")
                py == Axis(key, "y_line")
            IN  /\ \A n \in 0..(level_granularity - 1) :
                    /\ RowXLines(key, n) =
                         LinSpace(px[1], px[Len(px)], Len(px) * level_granularity)
                    /\ ColYLinesReversed(key, n) =
                         LinSpace(py[Len(py)], py[1], Len(py) * level_granularity)
                /\ \A c \in ChildKeys(key) :
                    /\ Len(Axis(c, "x_line")) = Len(px)
                    /\ Len(Axis(c, "y_line")) = Len(py)

\* a parent with 3 samples on x has been expanded into 2 x 2 children
C2_Witness ==
    \E key \in DOMAIN store :
        /\ Expanded(key)
        /\ level_granularity = 2
        /\ Len(Axis(key, "x_line")) = 3
        /\ Len(key) = 2

KeysOfGroups(n) == {k \in DOMAIN store : Len(k) = n * GroupWidth}

RECURSIVE LevelSum(_, _)
LevelSum(f, d) == IF d < 0 THEN 0 ELSE Pow(f, 2 * d) + LevelSum(f, d - 1)

Readable(key) == read_cache(store, key).raised = "none"

\* C3 as stated: the build ends with f^(2i) tiles of i digit-groups for
\* each i in 0..depth (the root key of length 0), 1 + f^2 + ... + f^(2 depth)
\* tiles in all, each readable.
C3_LevelsFromZeroGroups ==
    build_pc = "done" =>
        /\ \A i \in 0..depth :
              Cardinality(KeysOfGroups(i)) = Pow(level_granularity, 2 * i)
        /\ Cardinality(DOMAIN store) = LevelSum(level_granularity, depth)
        /\ \A k \in DOMAIN store : Readable(k)

LevelsFromOneGroup ==
    /\ \A i \in 0..depth :
          Cardinality(KeysOfGroups(i + 1)) = Pow(level_granularity, 2 * i)
    /\ Cardinality(DOMAIN store) = LevelSum(level_granularity, depth)
    /\ \A k \in DOMAIN store : Readable(k)

\* a step of the running build; one is enabled whenever build_pc is "while"
\* or "for"
BuildStep == WhileTest \/ ForParent \/ ForEnd

\* a variant of the build: the levels still to expand, then the parents
\* still to expand at the current level
BuildMeasure ==
    LET width == Len(base_name)
        big == Pow(level_granularity, 2 * (depth + 1)) + 3
        levels_left == (depth + 1) - (Len(current_level) \div width)
    IN  CASE build_pc = "while" -> levels_left * big + (big - 1)
          [] build_pc = "for" -> levels_left * big + Len(pending) + 1
          [] OTHER -> 0

\* C3 amended: on an empty store the build terminates (no call raises and
\* every step of the loop decreases a non-negative variant), and it ends with
\* f^(2i) tiles of i + 1 digit-groups for each i in 0..depth (the root key is
\* one group of zeros), 1 + f^2 + ... + f^(2 depth) tiles in all, each
\* readable.
C3_BuildLeavesAllLevels ==
    /\ [](build_pc = "done" => LevelsFromOneGroup)
    /\ [](build_pc # "raised" /\ BuildMeasure >= 0)
    /\ [][BuildStep => BuildMeasure' < BuildMeasure]_vars

\* the build of depth 2 and fanout 2 has returned: 21 tiles
C3_Witness ==
    /\ build_pc = "done"
    /\ depth = 2
    /\ level_granularity = 2
    /\ Cardinality(DOMAIN store) = 21

\* the tile create_initial_cache generates for the root
RootData == [mandel_data_from_lines(starting_linespace) EXCEPT !.level = base_name]

RootWasRead ==
    /\ build_pc = "done"
    /\ read_result.level = base_name
    /\ read_result.raised = "none"

\* C4 as stated: the tile read back under the root key is the generated
\* root tile, value for value: axes, counts and colors.
C4_RootReadIsGenerated ==
    RootWasRead => read_result.returned[1] = RootData

\* C4 amended: the tile read back under the root key has the x_line, y_line
\* and red, green and blue grids of the generated root tile, and each count
\* modulo 256; it is the generated tile, value for value, when max_iter <= 255.
C4_RootReadIsGeneratedMod256 ==
    RootWasRead =>
        LET got == read_result.returned[1]
        IN  /\ got.x_line = RootData.x_line
            /\ got.y_line = RootData.y_line
            /\ got.color_data = RootData.color_data
            /\ got.level = RootData.level
            /\ DOMAIN got.count_grid = DOMAIN RootData.count_grid
            /\ \A p \in DOMAIN got.count_grid :
                  got.count_grid[p] = RootData.count_grid[p] % Uint8Range
            /\ (starting_linespace.max_iter <= Uint8Range - 1 => got = RootData)

\* a root tile with a point that stays inside the radius for all 255
\* iterations and a point that leaves it has been read back
C4_Witness ==
    /\ RootWasRead
    /\ starting_linespace.max_iter = 255
    /\ \E p \in DOMAIN RootData.count_grid : RootData.count_grid[p] = 255
    /\ \E p \in DOMAIN RootData.count_grid : RootData.count_grid[p] < 255

KeyParent(key) == SubSeq(key, 1, Len(key) - GroupWidth)

ChildrenInStore(key) ==
    {c \in DOMAIN store : Len(c) = Len(key) + GroupWidth /\ KeyParent(c) = key}

\* C9: every key is a whole number of digit-groups long; the parent of every
\* key longer than one group is in the store; the children of a key in the
\* store are none or exactly the f^2 keys parent + zero-padded index, pairwise
\* distinct.
C9_KeysFormATree ==
    \A k \in DOMAIN store :
        /\ Len(k) % GroupWidth = 0
        /\ Len(k) >= GroupWidth
        /\ Len(k) > GroupWidth => KeyParent(k) \in DOMAIN store
        /\ \/ ChildrenInStore(k) = {}
           \/ /\ ChildrenInStore(k) = ChildKeys(k)
              /\ Cardinality(ChildrenInStore(k)) = level_granularity * level_granularity

\* a build with two-digit groups has expanded its root: the child 7 is
\* stored as 0007
C9_Witness ==
    /\ level_granularity = 4
    /\ <<"0", "0", "0", "7">> \in DOMAIN store
    /\ <<"0", "0", "1", "5">> \in DOMAIN store

\* the six datasets create_cache stores for the tile that
\* mandel_data_from_lines computes on the axes of a stored group with the
\* given max_iter and iteration_limit
StoredFor(group, maxIter, limit) ==
    LET mdl == mandel_data_from_lines(
                   [x_line |-> group["x_line"], y_line |-> group["y_line"],
                    max_iter |-> maxIter, iteration_limit |-> limit])
    IN  [name \in DatasetSet |-> DatasetValue(mdl, name)]

\* the tile is the one computed on its axes with the schema defaults
\* max_iter = 255 and iteration_limit = 2, its counts in 0..255
UsesSchemaDefaults(group) ==
    /\ group = StoredFor(group, DefaultMaxIter, DefaultIterationLimit)
    /\ \A p \in DOMAIN group["count_grid"] : group["count_grid"][p] \in 0..DefaultMaxIter

\* C13: every tile a step of create_initial_cache adds to the store is, for
\* the root key, the one computed with max_iter and iteration_limit of the
\* starting linespace and, for every other key, the one computed with
\* max_iter = 255 and iteration_limit = 2, its counts in 0..255; no step
\* changes a tile of the store or, once the build runs, the root key or the
\* starting linespace, so this holds of every tile of the built cache.
C13_DescendantsUseSchemaDefaults ==
    [][/\ \A key \in DOMAIN store : key \in DOMAIN store' /\ store'[key] = store[key]
       /\ build_pc # "idle" =>
             (base_name' = base_name /\ starting_linespace' = starting_linespace)
       /\ \A key \in DOMAIN store' \ DOMAIN store :
             /\ Complete(store'[key])
             /\ IF key = base_name'
                THEN store'[key] = StoredFor(store'[key], starting_linespace'.max_iter,
                                             starting_linespace'.iteration_limit)
                ELSE UsesSchemaDefaults(store'[key])]_vars

\* a build whose root was computed with max_iter = 3 and iteration_limit = 1
\* is over, and a descendant holds a point counted 255 times
C13_Witness ==
    /\ build_pc = "done"
    /\ depth >= 1
    /\ starting_linespace.max_iter = 3
    /\ starting_linespace.iteration_limit = 1
    /\ \E key \in DOMAIN store :
          /\ key # base_name
          /\ \E p \in DOMAIN store[key]["count_grid"] :
                store[key]["count_grid"][p] = DefaultMaxIter

\* ------------------------------------------- calls on a cache, in sequence
\* One H5Cache object used by one thread: create_initial_cache, create_cache,
\* generate_next_level and read_cache called one after the other, in any
\* order, on the same file.
MaxCalls == 2

BetweenCalls == build_pc \in {"idle", "done", "raised"}

OpsSpaces ==
    {ls \in RootSpaces : /\ ls.x_line = LinSpace(RInt(-2), RInt(1), 2)
                         /\ ls.y_line = <<RInt(0)>>
                         /\ ls.iteration_limit = DefaultIterationLimit
                         /\ ls.max_iter \in {3, 256}}
OpsArgs == {a \in BuildArgs : a[1] <= 1 /\ a[2] <= 2}
OpsLevels == {<<"0">>, <<"0", "3">>}

\* what main_loop returns: color_data is None
main_loop_data(ls) ==
    [count_grid |-> main_loop(ls.x_line, ls.y_line, ls.max_iter, ls.iteration_limit),
     x_line |-> ls.x_line,
     y_line |-> ls.y_line,
     color_data |-> NoColor,
     level |-> DefaultLevel]

\* the MandelData a caller hands to create_cache
ClientData ==
    {[d EXCEPT !.level = level] :
        d \in {mandel_data_from_lines(ls) : ls \in OpsSpaces}
              \cup {main_loop_data(ls) : ls \in OpsSpaces},
        level \in OpsLevels}

CallCreateInitialCache ==
    /\ BetweenCalls
    /\ calls < MaxCalls
    /\ \E ls \in OpsSpaces, a \in OpsArgs : CreateInitialCache(ls, a[1], a[2])

CallCreateCache ==
    /\ BetweenCalls
    /\ calls < MaxCalls
    /\ \E data \in ClientData :
          /\ store' = create_cache(store, data).store
          /\ raised' = create_cache(store, data).raised
    /\ calls' = calls + 1
    /\ UNCHANGED <<depth, level_granularity, base_name, starting_linespace,
                   current_level, pending, build_pc, read_result, loopVars, concVars, rescaleVars>>

\* generate_next_level on a tile read from the file
CallGenerateNextLevel ==
    /\ BetweenCalls
    /\ calls < MaxCalls
    /\ \E key \in DOMAIN store :
          /\ read_cache(store, key).raised = "none"
          /\ store' = generate_next_level(store, read_cache(store, key).returned[1],
                                          level_granularity, base_name).store
          /\ raised' = generate_next_level(store, read_cache(store, key).returned[1],
                                           level_granularity, base_name).raised
    /\ calls' = calls + 1
    /\ UNCHANGED <<depth, level_granularity, base_name, starting_linespace,
                   current_level, pending, build_pc, read_result, loopVars, concVars, rescaleVars>>

CallReadCache ==
    /\ BetweenCalls
    /\ calls < MaxCalls
    /\ \E level \in DOMAIN store \cup {AbsentKey} : ReadCache(level) /\ calls' = calls + 1

NextOps ==
    \/ CallCreateInitialCache
    \/ WhileTest
    \/ ForParent
    \/ ForEnd
    \/ CallCreateCache
    \/ CallGenerateNextLevel
    \/ CallReadCache

SpecOps == Init /\ [][NextOps]_vars

\* C6: no step changes a persisted tile: a key that holds its six datasets
\* keeps the key and each dataset exactly as written.
C6_PersistedNeverChanges ==
    [][\A k \in DOMAIN store :
          Complete(store[k]) => (k \in DOMAIN store' /\ store'[k] = store[k])]_vars

\* create_cache has been called for a key that holds a persisted tile (it
\* raised ValueError) and the tile is still there
C6_Witness ==
    /\ raised = "ValueError"
    /\ \E k \in DOMAIN store : Complete(store[k])
    /\ calls >= 2

\* the exception read_cache raises for a key the file does not have
NotFoundError == read_cache(EmptyStore, AbsentKey).raised

\* C7 as stated: read_cache of an absent key raises the not-found error,
\* read_cache of a key with a missing dataset raises another error, and
\* neither returns a tile.
C7_ReadErrorsDistinct ==
    [][\A level \in DOMAIN store \cup {AbsentKey} :
          (ReadCache(level) /\ calls' = calls + 1) =>
            /\ level \notin DOMAIN store =>
                  /\ read_result'.raised = NotFoundError
                  /\ read_result'.returned = <<>>
            /\ (level \in DOMAIN store /\ ~Complete(store[level])) =>
                  /\ read_result'.raised \notin {"none", NotFoundError}
                  /\ read_result'.returned = <<>>]_vars

\* ------------------------------------------------- concurrent callers
\* Two processes call create_cache and one calls read_cache on the same
\* file.  The code takes no lock of its own.  Opening the file while another
\* process has it open either succeeds or raises OSError, as the file locking
\* of the HDF5 library is on or off.
ConcLevel == <<"0">>
ConcData == {d \in ClientData : d.level = ConcLevel /\ d.x_line = LinSpace(RInt(-2), RInt(1), 2)}

HoldsFile(w) == gen_pc[w] \in {"create_group", "create_dataset"}
ReaderHoldsFile == rd_pc \in {"group", "dataset"}

concRest == <<depth, level_granularity, base_name, starting_linespace, current_level,
              pending, build_pc, raised, read_result, calls, loopVars, rescaleVars>>

\* the caller has computed the tile (mandel_data_from_lines) and calls
\* create_cache
GenCompute(w) ==
    /\ gen_pc[w] = "idle"
    /\ \E data \in ConcData : gen_data' = [gen_data EXCEPT ![w] = data]
    /\ gen_pc' = [gen_pc EXCEPT ![w] = "open"]
    /\ UNCHANGED <<store, gen_step, rd_pc, rd_level, rd_step, rd_got, concRest>>

\* with h5py.File(self.file_path, "r+") as f
GenOpen(w) ==
    /\ gen_pc[w] = "open"
    /\ gen_pc' = [gen_pc EXCEPT ![w] = "create_group"]
    /\ UNCHANGED <<store, gen_data, gen_step, rd_pc, rd_level, rd_step, rd_got, concRest>>

\* the open raises OSError: the file is locked by another process
GenOpenRaises(w) ==
    /\ gen_pc[w] = "open"
    /\ ReaderHoldsFile \/ \E o \in Generators \ {w} : HoldsFile(o)
    /\ gen_pc' = [gen_pc EXCEPT ![w] = "raised"]
    /\ UNCHANGED <<store, gen_data, gen_step, rd_pc, rd_level, rd_step, rd_got, concRest>>

\* level_group = f.create_group(data.level)
GenCreateGroup(w) ==
    /\ gen_pc[w] = "create_group"
    /\ IF CreateGroupRaises(store, gen_data[w].level)
       THEN /\ gen_pc' = [gen_pc EXCEPT ![w] = "raised"]
            /\ UNCHANGED <<store, gen_step>>
       ELSE /\ store' = CreateGroup(store, gen_data[w].level)
            /\ gen_step' = [gen_step EXCEPT ![w] = 1]
            /\ gen_pc' = [gen_pc EXCEPT ![w] = "create_dataset"]
    /\ UNCHANGED <<gen_data, rd_pc, rd_level, rd_step, rd_got, concRest>>

\* the next level_group.create_dataset(..)
GenCreateDataset(w) ==
    /\ gen_pc[w] = "create_dataset"
    /\ gen_step[w] <= Len(DatasetNames)
    /\ IF ValueRaises(gen_data[w], DatasetNames[gen_step[w]])
       THEN /\ gen_pc' = [gen_pc EXCEPT ![w] = "raised"]
            /\ UNCHANGED <<store, gen_step>>
       ELSE /\ store' = CreateDataset(store, gen_data[w].level, DatasetNames[gen_step[w]],
                                      DatasetValue(gen_data[w], DatasetNames[gen_step[w]]))
            /\ gen_step' = [gen_step EXCEPT ![w] = @ + 1]
            /\ UNCHANGED gen_pc
    /\ UNCHANGED <<gen_data, rd_pc, rd_level, rd_step, rd_got, concRest>>

\* the with block ends: the file is closed, create_cache returns
GenReturn(w) ==
    /\ gen_pc[w] = "create_dataset"
    /\ gen_step[w] > Len(DatasetNames)
    /\ gen_pc' = [gen_pc EXCEPT ![w] = "done"]
    /\ UNCHANGED <<store, gen_data, gen_step, rd_pc, rd_level, rd_step, rd_got, concRest>>

\* a client calls read_cache(level)
RdCall ==
    /\ rd_pc = "idle"
    /\ rd_level' = ConcLevel
    /\ rd_pc' = "open"
    /\ UNCHANGED <<store, gen_pc, gen_data, gen_step, rd_step, rd_got, concRest>>

\* with h5py.File(self.file_path, "r") as f
RdOpen ==
    /\ rd_pc = "open"
    /\ rd_pc' = "group"
    /\ UNCHANGED <<store, gen_pc, gen_data, gen_step, rd_level, rd_step, rd_got, concRest>>

RdOpenRaises ==
    /\ rd_pc = "open"
    /\ \E o \in Generators : HoldsFile(o)
    /\ rd_pc' = "raised"
    /\ UNCHANGED <<store, gen_pc, gen_data, gen_step, rd_level, rd_step, rd_got, concRest>>

\* level_group = f[level]: KeyError when the file has no such group
RdGroup ==
    /\ rd_pc = "group"
    /\ IF rd_level \in DOMAIN store
       THEN rd_pc' = "dataset" /\ rd_step' = 1
       ELSE rd_pc' = "raised" /\ rd_step' = rd_step
    /\ UNCHANGED <<store, gen_pc, gen_data, gen_step, rd_level, rd_got, concRest>>

\* the next level_group[name][:]: KeyError when the group has no such dataset
RdDataset ==
    /\ rd_pc = "dataset"
    /\ rd_step <= Len(DatasetNames)
    /\ IF DatasetNames[rd_step] \in DOMAIN store[rd_level]
       THEN /\ rd_got' = (DatasetNames[rd_step] :> store[rd_level][DatasetNames[rd_step]]) @@ rd_got
            /\ rd_step' = rd_step + 1
            /\ rd_pc' = rd_pc
       ELSE /\ rd_pc' = "raised"
            /\ UNCHANGED <<rd_got, rd_step>>
    /\ UNCHANGED <<store, gen_pc, gen_data, gen_step, rd_level, concRest>>

\* return MandelData(..)
RdReturn ==
    /\ rd_pc = "dataset"
    /\ rd_step > Len(DatasetNames)
    /\ rd_pc' = "returned"
    /\ UNCHANGED <<store, gen_pc, gen_data, gen_step, rd_level, rd_step, rd_got, concRest>>

NextConc ==
    \/ \E w \in Generators :
          \/ GenCompute(w)
          \/ GenOpen(w)
          \/ GenOpenRaises(w)
          \/ GenCreateGroup(w)
          \/ GenCreateDataset(w)
          \/ GenReturn(w)
    \/ RdCall
    \/ RdOpen
    \/ RdOpenRaises
    \/ RdGroup
    \/ RdDataset
    \/ RdReturn

SpecConc == Init /\ [][NextConc]_vars

\* the file as other processes can see it: a reader has it open, or no
\* writer has
Exposed == ReaderHoldsFile \/ \A w \in Generators : ~HoldsFile(w)

\* C5 as stated: whenever the file can be seen, every key in it has all six
\* datasets, also after a create_cache that raised part-way.
C5_NoPartialTileExposed ==
    Exposed => \A k \in DOMAIN store : Complete(store[k])

InFlight(w) == gen_pc[w] \in {"open", "create_group", "create_dataset"}

\* C8 as stated: no two generations of the same key are in flight at once,
\* and when both attempts are over the key holds one complete tile and no
\* attempt was aborted.
C8_OneGenerationPerKey ==
    /\ \A w1 \in Generators, w2 \in Generators :
          (w1 # w2 /\ InFlight(w1) /\ InFlight(w2)) =>
              gen_data[w1].level # gen_data[w2].level
    /\ (\A w \in Generators : gen_pc[w] \in {"done", "raised"}) =>
          /\ ConcLevel \in DOMAIN store
          /\ Complete(store[ConcLevel])
          /\ \A w \in Generators : gen_pc[w] # "raised"

\* ---------------------------------------------------- xlim_ylim_rescale
MaxSize == 3

\* self.plane_default_limits
plane_default_limits ==
    [x_min |-> Rat(-5, 2), x_max |-> Rat(5, 2), y_min |-> Rat(-5, 2), y_max |-> Rat(5, 2)]

\* Mandelbrot.xlim_ylim_rescale
xlim_ylim_rescale(req) ==
    LET aspect_ratio == Rat(req.size.x, req.size.y)
        one == RInt(1)
        scaled(key, center) == RAdd(RDiv(plane_default_limits[key], req.zoom_level), center)
        x_limit(key) ==
            IF RLt(aspect_ratio, one)
            THEN RMul(scaled(key, req.central_point.x), aspect_ratio)
            ELSE scaled(key, req.central_point.x)
        y_limit(key) ==
            IF RLt(one, aspect_ratio)
            THEN RDiv(scaled(key, req.central_point.y), aspect_ratio)
            ELSE scaled(key, req.central_point.y)
    IN  [x_min |-> x_limit("x_min"), x_max |-> x_limit("x_max"),
         y_min |-> y_limit("y_min"), y_max |-> y_limit("y_max")]

\* requests with zoom > 0, width > 0 and height > 0
Zooms == {Rat(1, 2), RInt(1), RInt(2)}
Centers == {RInt(-1), RInt(0), Rat(1, 2)}
Requests ==
    [size : [x : 1..MaxSize, y : 1..MaxSize],
     zoom_level : Zooms,
     pixel_per_point : {1},
     central_point : [x : Centers, y : Centers],
     max_iter : {DefaultMaxIter},
     iteration_limit : {DefaultIterationLimit},
     is_canvas : {FALSE}]

InitRescale ==
    /\ CacheInit
    /\ LoopIdle
    /\ ConcIdle
    /\ mdl_data \in Requests
    /\ plane_limits = <<>>
    /\ rescale_pc = "call"
    /\ RequestIdle

XlimYlimRescale ==
    /\ rescale_pc = "call"
    /\ plane_limits' = xlim_ylim_rescale(mdl_data)
    /\ rescale_pc' = "done"
    /\ UNCHANGED <<mdl_data, req_pc, req_raised, req_data, nan_as_int,
                   loopVars, cacheVars, concVars>>

NextRescale == XlimYlimRescale

SpecRescale == InitRescale /\ [][NextRescale]_vars

Half(r) == RDiv(r, RInt(2))
XSpan == RSub(plane_limits.x_max, plane_limits.x_min)
YSpan == RSub(plane_limits.y_max, plane_limits.y_min)
AspectRatio == Rat(mdl_data.size.x, mdl_data.size.y)
DefaultSpan == RDiv(RInt(5), mdl_data.zoom_level)

WindowIsCentered ==
    /\ Half(RAdd(plane_limits.x_min, plane_limits.x_max)) = mdl_data.central_point.x
    /\ Half(RAdd(plane_limits.y_min, plane_limits.y_max)) = mdl_data.central_point.y

WindowKeepsZoomAndAspect ==
    /\ RLe(RInt(1), AspectRatio) => XSpan = DefaultSpan
    /\ RLe(AspectRatio, RInt(1)) => YSpan = DefaultSpan
    /\ RDiv(XSpan, YSpan) = AspectRatio

\* C10 as stated: the window is centered on central_point on both axes, the
\* axis that is not aspect-corrected spans 5 / zoom, and the ratio of the
\* spans is width / height.
C10_WindowKeepsCenterZoomAspect ==
    rescale_pc = "done" => (WindowIsCentered /\ WindowKeepsZoomAndAspect)

\* ------------------------- mandel_data_from_request, mandel_data_from_lines
\* np.linspace(start, stop, num, endpoint=False): num samples start + i * step,
\* step = (stop - start) / num
LinSpaceOpen(start, stop, num) ==
    [i \in 1..num |-> RAdd(start, RMul(RInt(i - 1), RDiv(RSub(stop, start), RInt(num))))]

\* the values astype(int) can make of a nan: the cast is undefined in C
\* (the smallest integer of the type on x86, here that of a 32-bit int; 0 on
\* aarch64)
NanAsInt == {0, -2147483647 - 1}

\* int(count / max_iter * color_max) for any max_iter: 0 / 0 is nan and
\* count / 0 is inf (numpy warns and goes on), and astype(int) truncates
\* toward zero
np_red(count, maxIter, nan_int) ==
    IF maxIter > 0 THEN RedOf(count, maxIter)
    ELSE IF maxIter < 0 THEN -((count * ColorMax) \div (-maxIter))
    ELSE nan_int

\* colorize before the is_canvas test: np_red, np_green, np_blue with every
\* column repeated pixel_pp times, as integers
ColorChannels(counts, rows, cols, maxIter, pixel_pp, nan_int) ==
    [red |-> RepeatCols([p \in DOMAIN counts |-> np_red(counts[p], maxIter, nan_int)],
                        rows, cols, pixel_pp),
     green |-> RepeatCols([p \in DOMAIN counts |-> GreenOf(counts[p])],
                          rows, cols, pixel_pp),
     blue |-> RepeatCols([p \in DOMAIN counts |-> BlueOf(counts[p])],
                         rows, cols, pixel_pp)]

\* ndarray.flatten(): the entries of a rows x width grid row by row
FlattenGrid(grid, rows, width) ==
    [n \in 1..(rows * width) |-> grid[<<((n - 1) \div width) + 1, ((n - 1) % width) + 1>>]]

\* a flatten that walks the stacked rows one after the other (order "C")
FlattenF_RowMajor(stack, n) ==
    [m \in 1..(Len(stack) * n) |-> stack[((m - 1) \div n) + 1][((m - 1) % n) + 1]]

\* np.vstack([...]).flatten("F"): the stacked rows read column by column
FlattenF(stack, n) ==
    [m \in 1..(Len(stack) * n) |-> stack[((m - 1) % Len(stack)) + 1][((m - 1) \div Len(stack)) + 1]]

\* colorize(count_grid, max_iter, pixel_pp, is_canvas=True): the flat list
colorize_canvas(counts, rows, cols, maxIter, pixel_pp, nan_int) ==
    LET ch == ColorChannels(counts, rows, cols, maxIter, pixel_pp, nan_int)
        width == cols * pixel_pp
        np_red_flat == FlattenGrid(ch.red, rows, width)
        np_green_flat == FlattenGrid(ch.green, rows, width)
        np_blue_flat == FlattenGrid(ch.blue, rows, width)
        np_gamma == [n \in 1..(rows * width) |-> ColorMax]
    IN  FlattenF(<<np_red_flat, np_green_flat, np_blue_flat, np_gamma>>, rows * width)

\* colorize with its four arguments
colorize_any(counts, rows, cols, maxIter, pixel_pp, is_canvas, nan_int) ==
    IF is_canvas THEN colorize_canvas(counts, rows, cols, maxIter, pixel_pp, nan_int)
    ELSE ColorChannels(counts, rows, cols, maxIter, pixel_pp, nan_int)

\* the exception mandel_data_from_request raises: float division by a zero
\* zoom_level in xlim_ylim_rescale, integer division by a zero pixel_per_point
RequestRaises(req) ==
    IF req.zoom_level = RInt(0) \/ req.pixel_per_point = 0
    THEN "ZeroDivisionError" ELSE "none"

\* Mandelbrot.mandel_data_from_request, for a request it does not raise on
mandel_data_from_request(req, nan_int) ==
    LET limits == xlim_ylim_rescale(req)
        x_size == req.size.x \div req.pixel_per_point
        y_size == req.size.y \div req.pixel_per_point
        xl == LinSpaceOpen(limits.x_min, limits.x_max, x_size)
        yl == LinSpaceOpen(limits.y_max, limits.y_min, y_size)
        counts == main_loop(xl, yl, req.max_iter, req.iteration_limit)
    IN  [count_grid |-> counts,
         x_line |-> xl,
         y_line |-> yl,
         color_data |-> colorize_any(counts, y_size, x_size, req.max_iter,
                                     req.pixel_per_point, req.is_canvas, nan_int),
         level |-> DefaultLevel]

\* Mandelbrot.mandel_data_from_lines for any max_iter and iteration_limit
mandel_data_from_lines_any(ls, nan_int) ==
    LET counts == main_loop(ls.x_line, ls.y_line, ls.max_iter, ls.iteration_limit)
    IN  [count_grid |-> counts,
         x_line |-> ls.x_line,
         y_line |-> ls.y_line,
         color_data |-> colorize_any(counts, Len(ls.y_line), Len(ls.x_line),
                                     ls.max_iter, 1, FALSE, nan_int),
         level |-> DefaultLevel]

\* requests and line spaces as a caller can build them: the schemas check
\* the types of the fields, not their signs
AnyZooms == {RInt(-1), RInt(0), Rat(1, 2), RInt(1)}
AnyMaxIters == {-1, 0, 1, 3}
AnyLimits == {-1, 0, 2}
AnySizes == {1, 2, 4}
AnyRequests ==
    [size : [x : AnySizes, y : AnySizes],
     zoom_level : AnyZooms,
     pixel_per_point : {1, 2},
     central_point : {[x |-> RInt(0), y |-> RInt(0)], [x |-> RInt(-1), y |-> Rat(1, 2)]},
     max_iter : AnyMaxIters,
     iteration_limit : AnyLimits,
     is_canvas : BOOLEAN]
AnyLineSpaces ==
    [x_line : {LinSpace(RInt(-2), RInt(1), n) : n \in 1..MaxSize},
     y_line : {LinSpace(RInt(-1), RInt(1), n) : n \in 1..MaxSize},
     max_iter : AnyMaxIters,
     iteration_limit : AnyLimits]

IsRequest(arg) == "zoom_level" \in DOMAIN arg

InitRequest ==
    /\ CacheInit
    /\ LoopIdle
    /\ ConcIdle
    /\ mdl_data \in AnyRequests \cup AnyLineSpaces
    /\ plane_limits = <<>>
    /\ rescale_pc = "idle"
    /\ req_pc = "call"
    /\ req_raised = "none"
    /\ req_data = <<>>
    /\ nan_as_int \in NanAsInt

requestRest == <<mdl_data, rescale_pc, nan_as_int, loopVars, cacheVars, concVars>>

\* a call of mandel_data_from_request that returns
MandelDataFromRequest ==
    /\ req_pc = "call"
    /\ IsRequest(mdl_data)
    /\ RequestRaises(mdl_data) = "none"
    /\ plane_limits' = xlim_ylim_rescale(mdl_data)
    /\ req_data' = mandel_data_from_request(mdl_data, nan_as_int)
    /\ req_pc' = "done"
    /\ UNCHANGED <<req_raised, requestRest>>

\* a call of mandel_data_from_request that raises
MandelDataFromRequestRaises ==
    /\ req_pc = "call"
    /\ IsRequest(mdl_data)
    /\ RequestRaises(mdl_data) # "none"
    /\ req_raised' = RequestRaises(mdl_data)
    /\ req_pc' = "done"
    /\ UNCHANGED <<plane_limits, req_data, requestRest>>

\* a call of mandel_data_from_lines: it returns
MandelDataFromLines ==
    /\ req_pc = "call"
    /\ ~IsRequest(mdl_data)
    /\ req_data' = mandel_data_from_lines_any(mdl_data, nan_as_int)
    /\ req_pc' = "done"
    /\ UNCHANGED <<plane_limits, req_raised, requestRest>>

NextRequest ==
    \/ MandelDataFromRequest
    \/ MandelDataFromRequestRaises
    \/ MandelDataFromLines

SpecRequest == InitRequest /\ [][NextRequest]_vars

\* a request the specification calls misconfigured
NonPositiveConfig(arg) ==
    \/ arg.max_iter <= 0
    \/ arg.iteration_limit <= 0
    \/ IsRequest(arg) /\ RLe(arg.zoom_level, RInt(0))

\* C11 as stated: a call with a non-positive zoom, max_iter or
\* iteration_limit ends with a configuration error raised to the caller and
\* returns no count grid and no color data.
C11_NonPositiveConfigRejected ==
    (req_pc = "done" /\ NonPositiveConfig(mdl_data)) =>
        /\ req_raised = "ConfigurationError"
        /\ req_data = <<>>

\* the request of the state with is_canvas switched, and what the same call
\* returns for it
OtherShape == mandel_data_from_request([mdl_data EXCEPT !.is_canvas = ~@], nan_as_int)
CanvasData == IF mdl_data.is_canvas THEN req_data ELSE OtherShape
GridData == IF mdl_data.is_canvas THEN OtherShape ELSE req_data

\* the four entries of the canvas buffer for pixel number n (from 1, row by row)
Quadruple(buffer, n) == SubSeq(buffer, 4 * (n - 1) + 1, 4 * n)

\* C12: a request and the same request with is_canvas switched give the same
\* x_line, y_line and count_grid; the canvas buffer has four entries per pixel
\* of the channel grids, and the entries of a pixel, taken row by row, are
\* its red, green and blue of the channel grids followed by 255.
C12_CanvasIsShapeOnly ==
    (req_pc = "done" /\ IsRequest(mdl_data) /\ req_raised = "none") =>
        LET channels == GridData.color_data
            buffer == CanvasData.color_data
            rows == Len(GridData.y_line)
            width == Len(GridData.x_line) * mdl_data.pixel_per_point
        IN  /\ CanvasData.x_line = GridData.x_line
            /\ CanvasData.y_line = GridData.y_line
            /\ CanvasData.count_grid = GridData.count_grid
            /\ DOMAIN channels.red = (1..rows) \X (1..width)
            /\ Len(buffer) = 4 * Cardinality(DOMAIN channels.red)
            /\ \A p \in DOMAIN channels.red :
                  Quadruple(buffer, (p[1] - 1) * width + p[2]) =
                      <<channels.red[p], channels.green[p], channels.blue[p], ColorMax>>

\* a canvas request has returned a buffer for a grid of more than one row,
\* with columns repeated, whose pixels do not all have the same color
C12_Witness ==
    /\ req_pc = "done"
    /\ IsRequest(mdl_data)
    /\ req_raised = "none"
    /\ mdl_data.is_canvas
    /\ mdl_data.pixel_per_point = 2
    /\ Len(req_data.y_line) >= 2
    /\ Len(req_data.x_line) >= 2
    /\ \E n \in 1..(Len(req_data.color_data) \div 4) :
          Quadruple(req_data.color_data, n) # Quadruple(req_data.color_data, 1)

====
